---- MODULE Spec2Model ----
(***************************************************************************)
(* A model of lib/persistence.db.js: the entity metadata registry, the     *)
(* entity constructor with its tracked accessors, the tracked-object map,  *)
(* row materialisation, the value converters, save/flush and schemaSync.   *)
(*                                                                         *)
(* JavaScript values are tagged pairs <<tag, n>>; objects live in a heap   *)
(* (objs) and are named by their index there, so that two objects with the *)
(* same _id are still two objects.  Asynchronous completions               *)
(* (tx.executeSql success callbacks, conn.transaction callbacks) are       *)
(* separate actions.                                                       *)
(***************************************************************************)
EXTENDS Integers, Sequences, FiniteSets, TLC

\* ------------------------------------------------------------------ bounds
MaxObjs == 2        \* entity instances ever constructed
MaxWrites == 2      \* property writes after construction
MaxFlush == 1       \* flush() calls that may be in progress at once
MaxOverlap == 2     \* the same, for callers that do not serialise their flushes
MaxSync == 1        \* schemaSync() calls that may be in progress at once
MaxConv == 2        \* converter calls applied in a row to one value

\* ------------------------------------------------------------ JS values
Undef == <<"undef", 0>>
Null == <<"null", 0>>
Bool(b) == <<"bool", IF b THEN 1 ELSE 0>>
Num(n) == <<"num", n>>
Str(k) == <<"str", k>>          \* a non-empty string that is no id
IdStr(k) == <<"id", k>>         \* the id string of id number k
Obj(r) == <<"obj", r>>          \* a reference to heap object r
Throw == <<"throw", 0>>         \* the evaluation raised an exception

IsObj(v) == v[1] = "obj"

\* JavaScript truthiness (ToBoolean) of a value.
Truthy(v) ==
  CASE v[1] = "undef" -> FALSE
    [] v[1] = "null" -> FALSE
    [] v[1] = "bool" -> v[2] = 1
    [] v[1] = "num" -> v[2] # 0
    [] OTHER -> TRUE

\* The ids of the rows that an earlier session stored (the ids that
\* createUUID gives in this one are 1, 2, ...).
ExternalIds == {0}

\* ------------------------------------------------------- names and types
EntityNames == {"Person", "Pet"}
FieldNames == {"name", "adult"}
RelNames == {"owner"}
CollNames == {"pets"}
Props == FieldNames \cup RelNames \cup CollNames

\* The field maps handed to define(), in property order.
FieldsA == << [n |-> "name", t |-> "TEXT"], [n |-> "adult", t |-> "BOOL"] >>
FieldsB == << [n |-> "name", t |-> "TEXT"] >>
FieldChoices == {FieldsA, FieldsB}

Range(s) == {s[i] : i \in DOMAIN s}

\* ------------------------------------------------------- value converter
\* persistence.dbValToEntityVal(val, type); type "undefined" is an absent type.
dbValToEntityValNoBool(val, type) == val

dbValToEntityVal(val, type) ==
  IF type = "BOOL" THEN Bool(val = Num(1)) ELSE val

\* persistence.entityValToDbVal(val, type) on heap h: val._id of null raises a
\* TypeError, val._id of an entity instance is its (non-empty) id string and
\* val._id of any other primitive is undefined.
entityValToDbVal(h, val, type) ==
  IF val = Undef THEN Null
  ELSE IF val = Null THEN Throw
  ELSE IF IsObj(val) THEN IdStr(h[val[2]].id)
  ELSE IF type = "BOOL" THEN (IF Truthy(val) THEN Num(1) ELSE Num(0))
  ELSE val

\* ---------------------------------------------------------------- state
VARIABLES
  entityMeta,       \* entityMeta: entity name -> meta {name, fields, hasMany, hasOne}
  classCache,       \* persistence._entityClassCache: entity name -> constructor (0: none)
  ctors,            \* the constructor functions created so far: ctors[c] is c's entityName
  objs,             \* the heap of entity instances
  trackedObjects,   \* the closure's trackedObjects, as heap references in insertion order
  publicTracked,    \* persistence.trackedObjects: "closure" (the same map) or "fresh"
  flushes,          \* the flush() calls, one record per slot
  pending,          \* the statements of save() handed to tx.executeSql and not completed
  syncs,            \* the schemaSync() calls, one record per slot
  requests,         \* the transactions and create statements of schemaSync not completed
  writes,           \* property writes made so far
  last,             \* the last operation called and what it returned
  conv              \* the value a converter call is applied to (converter specification)

vars == << entityMeta, classCache, ctors, objs, trackedObjects, publicTracked,
           flushes, pending, syncs, requests, writes, last, conv >>

\* ------------------------------------------------------ metadata registry
\* ord is the entity's place in the property order of entityMeta (0: not there).
NoMeta ==
  [defined |-> FALSE, ord |-> 0, fields |-> << >>, hasMany |-> << >>, hasOne |-> << >>]

\* obj[key] = val on an object kept as a sequence of [n, e] in property order:
\* an existing key keeps its place.
MapPut(m, key, val) ==
  IF \E i \in DOMAIN m : m[i].n = key
  THEN [i \in DOMAIN m |-> IF m[i].n = key THEN [n |-> key, e |-> val] ELSE m[i]]
  ELSE Append(m, [n |-> key, e |-> val])

MapKeys(m) == {m[i].n : i \in DOMAIN m}
FieldType(meta, p) ==
  IF \E i \in DOMAIN meta.fields : meta.fields[i].n = p
  THEN meta.fields[CHOOSE i \in DOMAIN meta.fields : meta.fields[i].n = p].t
  ELSE "undefined"

FieldNamesOf(meta) == {meta.fields[i].n : i \in DOMAIN meta.fields}

\* getEntity(entityName): the cached constructor, or a new one that is cached.
getEntity(cache, cs, entityName) ==
  IF cache[entityName] # 0
  THEN [cache |-> cache, ctors |-> cs, ret |-> cache[entityName]]
  ELSE [cache |-> [cache EXCEPT ![entityName] = Len(cs) + 1],
        ctors |-> Append(cs, entityName), ret |-> Len(cs) + 1]

\* The registry after persistence.define(entityName, fields).
defineMetaOverwrite(em, entityName, fields) ==
  [em EXCEPT ![entityName] =
     [defined |-> TRUE,
      ord |-> IF @.defined THEN @.ord
              ELSE Cardinality({n \in DOMAIN em : em[n].defined}) + 1,
      fields |-> fields, hasMany |-> @.hasMany, hasOne |-> @.hasOne]]

defineMeta(em, entityName, fields) ==
  IF em[entityName].defined
  THEN em
  ELSE [em EXCEPT ![entityName] =
          [defined |-> TRUE,
           ord |-> Cardinality({n \in DOMAIN em : em[n].defined}) + 1,
           fields |-> fields, hasMany |-> << >>, hasOne |-> << >>]]

\* The registry after entity.hasMany(collName, otherEntity, invCollName), entity
\* and otherEntity being constructors c and other.
hasManyMetaNoInverse(em, cs, c, collName, other, invCollName) ==
  [em EXCEPT ![cs[c]].hasMany = MapPut(@, collName, other)]

hasManyMeta(em, cs, c, collName, other, invCollName) ==
  LET em1 == [em EXCEPT ![cs[c]].hasMany = MapPut(@, collName, other)]
  IN [em1 EXCEPT ![cs[other]].hasOne = MapPut(@, invCollName, c)]

\* -------------------------------------------------------- entity instances
\* An instance `that` with its closure variables data and data_obj.  racc are
\* the hasOne names that had an accessor installed when it was constructed; the
\* field accessors are those of the closure's meta.fields, which define() never
\* changes.  plain are the properties assigned without an accessor, inserts
\* counts the INSERT statements save has issued for the instance.
NewInstance(em, id, entityName) ==
  [id |-> id, new |-> TRUE, inserts |-> 0, type |-> entityName,
   racc |-> MapKeys(em[entityName].hasOne),
   dirty |-> << >>,
   data |-> [p \in FieldNames \cup RelNames |-> Undef],
   dobj |-> [p \in RelNames |-> 0],
   plain |-> [p \in Props |-> Undef]]

\* that._dirtyProperties[p] = true: a key already there keeps its place.
MarkDirty(d, p) == IF p \in Range(d) THEN d ELSE Append(d, p)

\* The hasOne setter of relation ref on instance o, heap h (lines 263-273).
setHasOne(h, o, ref, val) ==
  LET o1 == IF val = Null \/ val = Undef
            THEN [o EXCEPT !.data[ref] = Null]
            ELSE IF IsObj(val)
            THEN [o EXCEPT !.data[ref] = IdStr(h[val[2]].id), !.dobj[ref] = val[2]]
            ELSE [o EXCEPT !.data[ref] = val]
  IN [o1 EXCEPT !.dirty = MarkDirty(@, ref)]

\* The field setter of field f (lines 248-251).
setField(o, f, val) == [o EXCEPT !.data[f] = val, !.dirty = MarkDirty(@, f)]

\* that[p] = val: through the accessor when one is installed (a hasOne accessor
\* is installed after the field accessors), else a plain property.
SetProp(em, h, o, p, val) ==
  IF p \in o.racc THEN setHasOne(h, o, p, val)
  ELSE IF p \in FieldNamesOf(em[o.type]) THEN setField(o, p, val)
  ELSE [o EXCEPT !.plain[p] = val]

\* The hasOne getter (lines 277-285): the cached target, or an exception.
getHasOne(o, ref) == IF o.dobj[ref] # 0 THEN Obj(o.dobj[ref]) ELSE Throw

\* that[p] read.
GetProp(em, o, p) ==
  IF p \in o.racc THEN getHasOne(o, p)
  ELSE IF p \in FieldNamesOf(em[o.type]) THEN o.data[p]
  ELSE o.plain[p]

\* for (f in obj) that[f] = obj[f], obj the initializer as a sequence of [p, v].
RECURSIVE CopyInit(_, _, _, _)
CopyInit(em, h, o, init) ==
  IF init = << >> THEN o
  ELSE CopyInit(em, h, SetProp(em, h, o, Head(init).p, Head(init).v), Tail(init))

\* entity(obj) (lines 235-301): createUUID() is the fresh id, the number of the
\* instance in the heap.
construct(em, h, entityName, init) ==
  CopyInit(em, h, NewInstance(em, Len(h) + 1, entityName), init)

\* ----------------------------------------------------------- identity map
\* trackedObjects[id], as a heap reference (0: undefined).
Tracked(h, t, id) ==
  IF \E i \in DOMAIN t : h[t[i]].id = id
  THEN t[CHOOSE i \in DOMAIN t : h[t[i]].id = id]
  ELSE 0

\* persistence.add(obj) (lines 106-110).
addReplacing(h, t, r) ==
  IF Tracked(h, t, h[r].id) = 0 THEN Append(t, r)
  ELSE [i \in DOMAIN t |-> IF h[t[i]].id = h[r].id THEN r ELSE t[i]]

add(h, t, r) == IF Tracked(h, t, h[r].id) = 0 THEN Append(t, r) ELSE t

\* A database row: its id column and its other columns in property order; pre
\* says whether the column's name starts with the prefix asked for, prop is the
\* name after the prefix.
RowColsA == << [pre |-> TRUE, prop |-> "name", v |-> Str(2)] >>
RowColsB == << [pre |-> TRUE, prop |-> "adult", v |-> Num(1)],
               [pre |-> FALSE, prop |-> "name", v |-> Str(3)] >>
RowChoices == {RowColsA, RowColsB}

\* The loop of lines 183-193 over the row's columns.
RECURSIVE CopyRow(_, _, _, _)
CopyRow(em, h, o, cols) ==
  IF cols = << >> THEN o
  ELSE LET c == Head(cols)
           o1 == IF c.pre /\ c.prop # "id"
                 THEN SetProp(em, h, o, c.prop,
                              dbValToEntityVal(c.v, FieldType(em[o.type], c.prop)))
                 ELSE o
       IN CopyRow(em, h, o1, Tail(cols))

\* persistence.rowToEntity(entityName, row, prefix) (lines 173-195): the heap
\* afterwards and the reference returned.
rowToEntity(em, h, t, entityName, id, cols) ==
  IF Tracked(h, t, id) # 0
  THEN [objs |-> h, ret |-> Tracked(h, t, id), tracked |-> t]
  ELSE LET o == [construct(em, h, entityName, << >>) EXCEPT !.id = id, !.new = FALSE]
       IN [objs |-> Append(h, CopyRow(em, h, o, cols)), ret |-> Len(h) + 1,
           tracked |-> t]

\* ------------------------------------------------------------------- save
NoStmt == [kind |-> "none", table |-> "", cols |-> << >>, vals |-> << >>, key |-> -1]

\* values.push(persistence.entityValToDbVal(obj[p])) (line 328): the getter may
\* raise, and the converter is called without a type.
SaveValue(em, h, o, p) ==
  LET v == GetProp(em, o, p)
  IN IF v = Throw THEN Throw ELSE entityValToDbVal(h, v, "undefined")

\* save(obj, tx, callback) (lines 319-352) on heap object r: the heap
\* afterwards, the statement handed to tx.executeSql, and how the call ended:
\* "noop" (callback called at once), "issued" (callback is the statement's
\* success callback) or "thrown" (an exception left save).
saveNoEarlyReturn(em, h, r) ==
  LET o == h[r]
      vals == [i \in DOMAIN o.dirty |-> SaveValue(em, h, o, o.dirty[i])]
  IN IF Throw \in Range(vals)
     THEN [objs |-> h, outcome |-> "thrown", stmt |-> NoStmt]
     ELSE [objs |-> [h EXCEPT ![r].dirty = << >>, ![r].new = FALSE,
                              ![r].inserts = IF o.new THEN @ + 1 ELSE @],
           outcome |-> "issued",
           stmt |-> IF o.new
                    THEN [kind |-> "INSERT", table |-> o.type,
                          cols |-> Append(o.dirty, "id"),
                          vals |-> Append(vals, IdStr(o.id)), key |-> -1]
                    ELSE [kind |-> "UPDATE", table |-> o.type, cols |-> o.dirty,
                          vals |-> vals, key |-> o.id]]

saveKeepNew(em, h, r) ==
  LET o == h[r]
      vals == [i \in DOMAIN o.dirty |-> SaveValue(em, h, o, o.dirty[i])]
  IN IF Throw \in Range(vals)
     THEN [objs |-> h, outcome |-> "thrown", stmt |-> NoStmt]
     ELSE IF o.dirty = << >>
     THEN [objs |-> h, outcome |-> "noop", stmt |-> NoStmt]
     ELSE [objs |-> [h EXCEPT ![r].dirty = << >>,
                              ![r].inserts = IF o.new THEN @ + 1 ELSE @],
           outcome |-> "issued",
           stmt |-> IF o.new
                    THEN [kind |-> "INSERT", table |-> o.type,
                          cols |-> Append(o.dirty, "id"),
                          vals |-> Append(vals, IdStr(o.id)), key |-> -1]
                    ELSE [kind |-> "UPDATE", table |-> o.type, cols |-> o.dirty,
                          vals |-> vals, key |-> o.id]]

save(em, h, r) ==
  LET o == h[r]
      vals == [i \in DOMAIN o.dirty |-> SaveValue(em, h, o, o.dirty[i])]
  IN IF Throw \in Range(vals)
     THEN [objs |-> h, outcome |-> "thrown", stmt |-> NoStmt]
     ELSE IF o.dirty = << >>
     THEN [objs |-> h, outcome |-> "noop", stmt |-> NoStmt]
     ELSE [objs |-> [h EXCEPT ![r].dirty = << >>, ![r].new = FALSE,
                              ![r].inserts = IF o.new THEN @ + 1 ELSE @],
           outcome |-> "issued",
           stmt |-> IF o.new
                    THEN [kind |-> "INSERT", table |-> o.type,
                          cols |-> Append(o.dirty, "id"),
                          vals |-> Append(vals, IdStr(o.id)), key |-> -1]
                    ELSE [kind |-> "UPDATE", table |-> o.type, cols |-> o.dirty,
                          vals |-> vals, key |-> o.id]]

\* What one save call did, for the log of the flush record.
SaveRecord(h, r, res) ==
  [ref |-> r, newBefore |-> h[r].new, dirtyBefore |-> h[r].dirty,
   outcome |-> res.outcome, stmt |-> res.stmt,
   newAfter |-> res.objs[r].new, dirtyAfter |-> res.objs[r].dirty,
   same |-> res.objs[r] = h[r]]

\* ------------------------------------------------------------------ flush
\* A flush() call: objArray as taken (snapshot) and as left (queue), the
\* instances save was called on (saved), the statements issued (nstmt), those
\* the store reported as failed (failed), the calls of its callback (cb) and
\* the save calls of its last step (log).
IdleFlush == [state |-> "idle", snapshot |-> << >>, queue |-> << >>,
              cb |-> 0, nstmt |-> 0, failed |-> 0, saved |-> << >>, log |-> << >>]

Front(s) == SubSeq(s, 1, Len(s) - 1)
Last(s) == s[Len(s)]

\* persistOneEntity() (lines 124-133) of flush record f on heap h, run until a
\* statement is outstanding, the callback has been called or an exception
\* leaves it: a save that issues nothing calls its callback at once, which
\* starts the next save.  issued are the statements handed to tx.executeSql.
RECURSIVE persistOneEntityEager(_, _, _, _)
persistOneEntityEager(em, h, f, issued) ==
  LET r == Last(f.queue)
      res == save(em, h, r)
      f1 == [f EXCEPT !.queue = Front(f.queue), !.saved = Append(@, r),
                      !.log = Append(@, SaveRecord(h, r, res))]
      f2 == IF res.outcome = "issued"
            THEN [f1 EXCEPT !.state = "waiting", !.nstmt = @ + 1]
            ELSE f1
      issued2 == IF res.outcome = "issued" THEN issued \cup {res.stmt} ELSE issued
  IN IF res.outcome = "thrown"
     THEN [objs |-> h, f |-> [f1 EXCEPT !.state = "thrown"], issued |-> issued]
     ELSE IF Len(f1.queue) > 0
     THEN persistOneEntityEager(em, res.objs, f2, issued2)
     ELSE IF f2.state = "waiting"
     THEN [objs |-> res.objs, f |-> f2, issued |-> issued2]
     ELSE [objs |-> res.objs, f |-> [f2 EXCEPT !.state = "done", !.cb = @ + 1],
           issued |-> issued2]

RECURSIVE persistOneEntity(_, _, _, _)
persistOneEntity(em, h, f, issued) ==
  LET r == Last(f.queue)
      res == save(em, h, r)
      f1 == [f EXCEPT !.queue = Front(f.queue), !.saved = Append(@, r),
                      !.log = Append(@, SaveRecord(h, r, res))]
  IN CASE res.outcome = "thrown" ->
            [objs |-> h, f |-> [f1 EXCEPT !.state = "thrown"], issued |-> issued]
       [] res.outcome = "issued" ->
            [objs |-> res.objs,
             f |-> [f1 EXCEPT !.state = "waiting", !.nstmt = @ + 1],
             issued |-> issued \cup {res.stmt}]
       [] OTHER ->
            IF Len(f1.queue) > 0
            THEN persistOneEntity(em, res.objs, f1, issued)
            ELSE [objs |-> res.objs,
                  f |-> [f1 EXCEPT !.state = "done", !.cb = @ + 1], issued |-> issued]

\* persistence.flush(tx, callback) (lines 117-139) with trackedObjects t.
flush(em, h, t) ==
  LET f == [IdleFlush EXCEPT !.snapshot = t, !.queue = t]
  IN IF Len(t) > 0
     THEN persistOneEntity(em, h, f, {})
     ELSE [objs |-> h, f |-> [f EXCEPT !.state = "done", !.cb = @ + 1], issued |-> {}]

\* The success callback of a statement of flush record f (lines 126-132).
saveCallback(em, h, f) ==
  LET f1 == [f EXCEPT !.log = << >>]
  IN IF Len(f1.queue) > 0
     THEN persistOneEntity(em, h, f1, {})
     ELSE [objs |-> h, f |-> [f1 EXCEPT !.state = "done", !.cb = @ + 1], issued |-> {}]

\* ------------------------------------------------------------- schemaSync
NoCreate == [kind |-> "none", table |-> "", cols |-> << >>, wellFormed |-> TRUE]

\* A schemaSync() call: entityArray as built (snapshot) and as left (queue), the
\* transactions opened (ntx), the statements issued (nstmt), their tables in
\* the order of issue (tables), the statements the store reported as failed
\* (failed) and the calls of its callback (cb).
IdleSync == [state |-> "idle", snapshot |-> << >>, queue |-> << >>, cb |-> 0,
             ntx |-> 0, nstmt |-> 0, failed |-> 0, tables |-> << >>]

\* entityArray (lines 60-65): the registered entities in property order.
entityArray(em) ==
  LET n == Cardinality({e \in DOMAIN em : em[e].defined})
  IN [i \in 1..n |-> CHOOSE e \in DOMAIN em : em[e].ord = i]

\* The columns of rowDef (lines 68-78, 84) after the id column of line 87.
createCols(meta) ==
  << [n |-> "id", t |-> "VARCHAR(32) PRIMARY KEY"] >>
  \o meta.fields
  \o [i \in DOMAIN meta.hasOne |-> [n |-> meta.hasOne[i].n, t |-> "VARCHAR(255)"]]

\* createOneEntityTable() (lines 66-98) up to the call of conn.transaction: an
\* empty entityArray pops undefined, and meta.fields raises.  req is the
\* transaction asked for, with the statement its callback will issue.
createOneEntityTable(em, s) ==
  IF s.queue = << >>
  THEN [s |-> [s EXCEPT !.state = "thrown"], req |-> {}]
  ELSE LET meta == em[Last(s.queue)]
       IN [s |-> [s EXCEPT !.state = "running", !.queue = Front(s.queue),
                           !.ntx = @ + 1],
           req |-> {[kind |-> "CREATE", table |-> Last(s.queue),
                     cols |-> createCols(meta),
                     wellFormed |-> Len(createCols(meta)) > 1]}]

\* The success callback of the create statement (lines 88-96).
createCallback(em, s) ==
  IF Len(s.queue) > 0
  THEN createOneEntityTable(em, s)
  ELSE [s |-> [s EXCEPT !.state = "done", !.cb = @ + 1], req |-> {}]

\* ------------------------------------------------------------------- Init
NoConv == [v0 |-> Undef, t |-> "undefined", trail |-> << >>, cur |-> Undef]

\* What the last call returned, kept for define() of a name already
\* registered: the name, the constructor returned, and whether the fields
\* handed in differ from the registered ones; and for add() of an instance
\* whose id is tracked for another instance: the instance handed in.
NoLast == [op |-> "other", name |-> "", ret |-> 0, differs |-> FALSE]

Init ==
  /\ entityMeta = [n \in EntityNames |-> NoMeta]
  /\ classCache = [n \in EntityNames |-> 0]
  /\ ctors = << >>
  /\ objs = << >>
  /\ trackedObjects = << >>
  /\ publicTracked = "closure"
  /\ flushes = [i \in 1..MaxOverlap |-> IdleFlush]
  /\ pending = {}
  /\ syncs = [i \in 1..MaxSync |-> IdleSync]
  /\ requests = {}
  /\ writes = 0
  /\ last = NoLast
  /\ conv = NoConv

\* ---------------------------------------------------------------- actions
\* persistence.define(entityName, fields) (lines 41-53).
Define(entityName, fields) ==
  LET g == getEntity(classCache, ctors, entityName)
  IN /\ entityMeta' = defineMeta(entityMeta, entityName, fields)
     /\ classCache' = g.cache
     /\ ctors' = g.ctors
     /\ last' = IF entityMeta[entityName].defined
                THEN [op |-> "redefine", name |-> entityName, ret |-> g.ret,
                      differs |-> fields # entityMeta[entityName].fields]
                ELSE NoLast
     /\ UNCHANGED << objs, trackedObjects, publicTracked, flushes, pending, syncs,
                     requests, writes, conv >>

\* entity.hasMany(collName, otherEntity, invCollName) (lines 309-313).
HasMany(c, collName, other, invCollName) ==
  /\ entityMeta' = hasManyMeta(entityMeta, ctors, c, collName, other, invCollName)
  /\ last' = NoLast
  /\ UNCHANGED << classCache, ctors, objs, trackedObjects, publicTracked, flushes,
                  pending, syncs, requests, writes, conv >>

\* The initializers handed to a constructor.
InitChoices ==
  { << >>,
    << [p |-> "name", v |-> Str(1)], [p |-> "adult", v |-> Bool(TRUE)] >> }

\* entity(obj) (lines 235-301), entity being constructor c.
New(c, init) ==
  /\ Len(objs) < MaxObjs
  /\ objs' = Append(objs, construct(entityMeta, objs, ctors[c], init))
  /\ last' = NoLast
  /\ UNCHANGED << entityMeta, classCache, ctors, trackedObjects, publicTracked,
                  flushes, pending, syncs, requests, writes, conv >>

\* The properties of instance r that are written, and the values written.
WriteProps(r) == FieldNamesOf(entityMeta[objs[r].type]) \cup objs[r].racc

WriteVals(r, p) ==
  IF p \in RelNames
  THEN {Null} \cup {IdStr(k) : k \in ExternalIds} \cup {Obj(q) : q \in DOMAIN objs \ {r}}
  ELSE IF p = "adult" THEN {Bool(FALSE)}
  ELSE {Null, Str(2)}

\* obj[p] = val.
Write(r, p, val) ==
  /\ writes < MaxWrites
  /\ writes' = writes + 1
  /\ objs' = [objs EXCEPT ![r] = SetProp(entityMeta, objs, @, p, val)]
  /\ last' = NoLast
  /\ UNCHANGED << entityMeta, classCache, ctors, trackedObjects, publicTracked,
                  flushes, pending, syncs, requests, conv >>

\* persistence.add(obj) (lines 106-110).
Add(r) ==
  /\ trackedObjects' = add(objs, trackedObjects, r)
  /\ last' = IF Tracked(objs, trackedObjects, objs[r].id) \in {0, r}
             THEN NoLast
             ELSE [op |-> "add", name |-> "", ret |-> r, differs |-> TRUE]
  /\ UNCHANGED << entityMeta, classCache, ctors, objs, publicTracked, flushes,
                  pending, syncs, requests, writes, conv >>

\* persistence.rowToEntity(entityName, row, prefix) (lines 173-195) for a
\* registered entity and the row with this id and these columns.
RowToEntity(entityName, id, cols) ==
  LET g == getEntity(classCache, ctors, entityName)
      res == rowToEntity(entityMeta, objs, trackedObjects, entityName, id, cols)
  IN /\ entityMeta[entityName].defined
     /\ Len(res.objs) <= MaxObjs
     /\ objs' = res.objs
     /\ trackedObjects' = res.tracked
     /\ classCache' = g.cache
     /\ ctors' = g.ctors
     /\ last' = NoLast
     /\ UNCHANGED << entityMeta, publicTracked, flushes, pending, syncs, requests,
                     writes, conv >>

\* persistence.clean() (lines 144-146): assigns a new object to the property
\* persistence.trackedObjects; the closure variable trackedObjects, which add,
\* flush and rowToEntity read, is another binding and keeps its object.
clean(t) == t

Clean ==
  /\ publicTracked' = "fresh"
  /\ trackedObjects' = clean(trackedObjects)
  /\ last' = NoLast
  /\ UNCHANGED << entityMeta, classCache, ctors, objs, flushes, pending, syncs,
                  requests, writes, conv >>

\* The slot that takes the next flush() call: the first with no flush in
\* progress.
FreeFlush(i) ==
  /\ flushes[i].state # "waiting"
  /\ \A j \in 1..(i - 1) : flushes[j].state = "waiting"

\* persistence.flush(tx, callback) (lines 117-139), callback given.
Flush(i) ==
  LET res == flush(entityMeta, objs, trackedObjects)
  IN /\ FreeFlush(i)
     /\ objs' = res.objs
     /\ flushes' = [flushes EXCEPT ![i] = res.f]
     /\ pending' = pending \cup {[slot |-> i, stmt |-> st] : st \in res.issued}
     /\ last' = NoLast
     /\ UNCHANGED << entityMeta, classCache, ctors, trackedObjects, publicTracked,
                     syncs, requests, writes, conv >>

\* Statement p completes: its success callback, save's callback, runs.
FlushComplete(p) ==
  LET res == saveCallback(entityMeta, objs, flushes[p.slot])
  IN /\ p \in pending
     /\ objs' = res.objs
     /\ flushes' = [flushes EXCEPT ![p.slot] = res.f]
     /\ pending' = (pending \ {p}) \cup {[slot |-> p.slot, stmt |-> st] : st \in res.issued}
     /\ last' = NoLast
     /\ UNCHANGED << entityMeta, classCache, ctors, trackedObjects, publicTracked,
                     syncs, requests, writes, conv >>

\* The store reports statement p as failed: tx.executeSql was given a success
\* callback only (lines 346, 350), so no code of flush or save runs.
FlushFail(p) ==
  /\ p \in pending
  /\ pending' = pending \ {p}
  /\ flushes' = [flushes EXCEPT ![p.slot].failed = @ + 1]
  /\ last' = NoLast
  /\ UNCHANGED << entityMeta, classCache, ctors, objs, trackedObjects, publicTracked,
                  syncs, requests, writes, conv >>

FreeSync(j) ==
  /\ syncs[j].state # "running"
  /\ \A k \in 1..(j - 1) : syncs[k].state = "running"

\* persistence.schemaSync(callback) (lines 59-100), callback given.
SchemaSync(j) ==
  LET res == createOneEntityTable(entityMeta,
                                  [IdleSync EXCEPT !.snapshot = entityArray(entityMeta),
                                                   !.queue = entityArray(entityMeta)])
  IN /\ FreeSync(j)
     /\ syncs' = [syncs EXCEPT ![j] = res.s]
     /\ requests' = requests \cup {[slot |-> j, stage |-> "tx", stmt |-> st] : st \in res.req}
     /\ last' = NoLast
     /\ UNCHANGED << entityMeta, classCache, ctors, objs, trackedObjects,
                     publicTracked, flushes, pending, writes, conv >>

\* The transaction callback of line 85 runs: tx.executeSql issues the statement.
SyncTransaction(q) ==
  /\ q \in requests
  /\ q.stage = "tx"
  /\ requests' = (requests \ {q}) \cup {[q EXCEPT !.stage = "stmt"]}
  /\ syncs' = [syncs EXCEPT ![q.slot].nstmt = @ + 1,
                            ![q.slot].tables = Append(@, q.stmt.table)]
  /\ last' = NoLast
  /\ UNCHANGED << entityMeta, classCache, ctors, objs, trackedObjects, publicTracked,
                  flushes, pending, writes, conv >>

\* Create statement q completes: its success callback runs.
SyncComplete(q) ==
  LET res == createCallback(entityMeta, syncs[q.slot])
  IN /\ q \in requests
     /\ q.stage = "stmt"
     /\ syncs' = [syncs EXCEPT ![q.slot] = res.s]
     /\ requests' = (requests \ {q})
                      \cup {[slot |-> q.slot, stage |-> "tx", stmt |-> st] : st \in res.req}
     /\ last' = NoLast
     /\ UNCHANGED << entityMeta, classCache, ctors, objs, trackedObjects,
                     publicTracked, flushes, pending, writes, conv >>

\* The store reports create statement q as failed: neither tx.executeSql (line
\* 86-96) nor conn.transaction (line 85) was given an error callback, so no
\* code of schemaSync runs.
SyncFail(q) ==
  /\ q \in requests
  /\ q.stage = "stmt"
  /\ requests' = requests \ {q}
  /\ syncs' = [syncs EXCEPT ![q.slot].failed = @ + 1]
  /\ last' = NoLast
  /\ UNCHANGED << entityMeta, classCache, ctors, objs, trackedObjects, publicTracked,
                  flushes, pending, writes, conv >>

\* The registry's operations: Person is defined with either field map and
\* declares the collection, Pet is its target.
DefineSome ==
  \E n \in EntityNames, fs \in FieldChoices : (n = "Pet" => fs = FieldsB) /\ Define(n, fs)

HasManySome ==
  \E c \in DOMAIN ctors, other \in DOMAIN ctors, cn \in CollNames, inv \in RelNames :
    ctors[c] = "Person" /\ ctors[other] = "Pet" /\ HasMany(c, cn, other, inv)

\* define() of a name not yet registered.
DefineFirst ==
  \E n \in EntityNames, fs \in FieldChoices :
    /\ ~entityMeta[n].defined
    /\ n = "Pet" => fs = FieldsB
    /\ Define(n, fs)

\* The session: the registry's operations, instances, the tracked objects and
\* flush.  Each entity is defined once here, define() of a registered name
\* being settled under SchemaSpec; schemaSync is left to SchemaSpec too: it
\* reads entityMeta and writes only its own records, which no action here reads.
Next ==
  \/ DefineFirst
  \/ HasManySome
  \/ \E c \in DOMAIN ctors, init \in InitChoices : New(c, init)
  \/ \E r \in DOMAIN objs : \E p \in WriteProps(r) : \E v \in WriteVals(r, p) :
       Write(r, p, v)
  \/ \E r \in DOMAIN objs : Add(r)
  \/ \E id \in ExternalIds \cup {objs[r].id : r \in DOMAIN objs} :
       RowToEntity("Person", id, RowColsB)
  \/ Clean
  \/ \E i \in 1..MaxFlush : Flush(i)
  \/ \E p \in pending : FlushComplete(p)

Spec == Init /\ [][Next]_vars

\* The schema: the registry's operations and schemaSync.
SchemaNext ==
  \/ DefineSome
  \/ HasManySome
  \/ \E j \in 1..MaxSync : SchemaSync(j)
  \/ \E q \in requests : SyncTransaction(q)
  \/ \E q \in requests : SyncComplete(q)
  \/ \E q \in requests : SyncFail(q)

SchemaSpec == Init /\ [][SchemaNext]_vars

\* Callers that do not serialise their flushes, on a store whose statements
\* may fail: one entity with a TEXT and a BOOL field, its instances, made by
\* the constructor or from a row, and flush() calls that overlap.
DefinePerson == ~entityMeta["Person"].defined /\ Define("Person", FieldsA)

OverlapNext ==
  \/ DefinePerson
  \/ \E c \in DOMAIN ctors, init \in InitChoices : New(c, init)
  \/ \E r \in DOMAIN objs : \E p \in WriteProps(r) : \E v \in WriteVals(r, p) :
       Write(r, p, v)
  \/ \E r \in DOMAIN objs : Add(r)
  \/ \E id \in ExternalIds \cup {objs[r].id : r \in DOMAIN objs} :
       RowToEntity("Person", id, RowColsB)
  \/ \E i \in 1..MaxOverlap : Flush(i)
  \/ \E p \in pending : FlushComplete(p)
  \/ \E p \in pending : FlushFail(p)

OverlapSpec == Init /\ [][OverlapNext]_vars

\* ------------------------------------------------- the value converters
\* The converters applied to a value v0 of a column of type t: trail are the
\* calls made so far, cur is the value they gave.
ConvInputs ==
  {Undef, Null, Bool(TRUE), Bool(FALSE), Num(0), Num(1), Num(2), Str(1)}
ConvTypes == {"BOOL", "TEXT", "INT", "undefined"}

ConvInit ==
  /\ entityMeta = [n \in EntityNames |-> NoMeta]
  /\ classCache = [n \in EntityNames |-> 0]
  /\ ctors = << >>
  /\ objs = << >>
  /\ trackedObjects = << >>
  /\ publicTracked = "closure"
  /\ flushes = [i \in 1..MaxOverlap |-> IdleFlush]
  /\ pending = {}
  /\ syncs = [i \in 1..MaxSync |-> IdleSync]
  /\ requests = {}
  /\ writes = 0
  /\ last = NoLast
  /\ conv \in {[v0 |-> v, t |-> t, trail |-> << >>, cur |-> v] :
                 v \in ConvInputs, t \in ConvTypes}

\* persistence.entityValToDbVal(cur, t).
ToStorage ==
  /\ Len(conv.trail) < MaxConv
  /\ conv.cur # Throw
  /\ conv' = [conv EXCEPT !.trail = Append(@, "toStorage"),
                          !.cur = entityValToDbVal(objs, conv.cur, conv.t)]
  /\ UNCHANGED << entityMeta, classCache, ctors, objs, trackedObjects, publicTracked,
                  flushes, pending, syncs, requests, writes, last >>

\* persistence.dbValToEntityVal(cur, t).
FromStorage ==
  /\ Len(conv.trail) < MaxConv
  /\ conv.cur # Throw
  /\ conv' = [conv EXCEPT !.trail = Append(@, "fromStorage"),
                          !.cur = dbValToEntityVal(conv.cur, conv.t)]
  /\ UNCHANGED << entityMeta, classCache, ctors, objs, trackedObjects, publicTracked,
                  flushes, pending, syncs, requests, writes, last >>

ConvNext == ToStorage \/ FromStorage

ConvSpec == ConvInit /\ [][ConvNext]_vars

\* ------------------------------------------------------------ properties
\* The save calls recorded in the flush records.
SaveCalls == {<<i, k>> : i \in 1..MaxFlush, k \in 1..MaxObjs}
IsCall(c) == c[2] \in DOMAIN flushes[c[1]].log
Call(c) == flushes[c[1]].log[c[2]]

Reverse(s) == [i \in DOMAIN s |-> s[Len(s) + 1 - i]]

\* C1: save() on an instance with isNew = true and a non-empty dirtySet issues
\* one INSERT into the instance's table whose columns are the dirtySet at call
\* time plus the id column, bound to the instance's id, and leaves isNew false
\* and dirtySet empty.
C1_SaveNewInserts ==
  \A c \in SaveCalls :
    (IsCall(c) /\ Call(c).newBefore /\ Call(c).dirtyBefore # << >>) =>
      /\ Call(c).outcome = "issued"
      /\ Call(c).stmt.kind = "INSERT"
      /\ Call(c).stmt.table = objs[Call(c).ref].type
      /\ Call(c).stmt.cols = Append(Call(c).dirtyBefore, "id")
      /\ Len(Call(c).stmt.vals) = Len(Call(c).stmt.cols)
      /\ Last(Call(c).stmt.vals) = IdStr(objs[Call(c).ref].id)
      /\ ~Call(c).newAfter
      /\ Call(c).dirtyAfter = << >>

\* C2: save() on an instance with isNew = false and a non-empty dirtySet D
\* issues one UPDATE keyed by the instance's id that sets the columns in D and
\* no other; no INSERT is issued for an instance whose isNew is false.
C2_SavePersistedUpdates ==
  \A c \in SaveCalls :
    (IsCall(c) /\ ~Call(c).newBefore) =>
      /\ Call(c).stmt.kind # "INSERT"
      /\ Call(c).dirtyBefore # << >> =>
           /\ Call(c).outcome = "issued"
           /\ Call(c).stmt.kind = "UPDATE"
           /\ Call(c).stmt.key = objs[Call(c).ref].id
           /\ Call(c).stmt.cols = Call(c).dirtyBefore
           /\ Len(Call(c).stmt.vals) = Len(Call(c).stmt.cols)

\* C3: save() on an instance whose dirtySet is empty, new or persisted, issues
\* no statement, invokes its callback (the flush goes on to its next save, or
\* calls its own callback) and leaves the instance as it was.
C3_SaveCleanIsNoop ==
  \A c \in SaveCalls :
    (IsCall(c) /\ Call(c).dirtyBefore = << >>) =>
      /\ Call(c).outcome = "noop"
      /\ Call(c).stmt = NoStmt
      /\ Call(c).same
      /\ \/ c[2] < Len(flushes[c[1]].log)
         \/ flushes[c[1]].state = "done" /\ flushes[c[1]].cb = 1

C3_Witness ==
  \E c \in SaveCalls, d \in SaveCalls :
    /\ IsCall(c) /\ IsCall(d)
    /\ c[1] = d[1]
    /\ Call(c).dirtyBefore = << >> /\ Call(c).newBefore /\ Call(c).outcome = "noop"
    /\ Call(d).dirtyBefore = << >> /\ ~Call(d).newBefore /\ Call(d).outcome = "noop"
    /\ flushes[c[1]].nstmt = 0

\* C4: with every statement completed, a flush() call has invoked its callback
\* once, after the save of every instance of its snapshot; it saves no instance
\* that is not in the snapshot, and over an empty snapshot it calls back at
\* once without a statement.
C4_FlushCallsBackOnce ==
  \A i \in 1..MaxFlush :
    LET f == flushes[i]
        outstanding == {p \in pending : p.slot = i}
    IN /\ f.cb <= 1
       /\ Range(f.saved) \subseteq Range(f.snapshot)
       /\ f.cb = 1 => (f.saved = Reverse(f.snapshot) /\ outstanding = {})
       /\ (f.state # "idle" /\ outstanding = {}) => f.cb = 1
       /\ (f.state # "idle" /\ f.snapshot = << >>) => (f.cb = 1 /\ f.nstmt = 0)

\* C5: rowToEntity called twice in a row with rows of the same id returns the
\* same object both times, and the second row's columns leave that object as
\* it was, whatever trackedObjects holds.
C5_FromRowTwiceSameObject ==
  \A n \in EntityNames, id \in ExternalIds \cup {objs[r].id : r \in DOMAIN objs},
     cols1 \in RowChoices, cols2 \in RowChoices :
    entityMeta[n].defined =>
      LET r1 == rowToEntity(entityMeta, objs, trackedObjects, n, id, cols1)
          r2 == rowToEntity(entityMeta, r1.objs, r1.tracked, n, id, cols2)
      IN /\ r2.ret = r1.ret
         /\ r2.objs[r1.ret] = r1.objs[r1.ret]

\* C6: the constructor cached for a name by its first define is never
\* replaced; define() of a name already registered returns it, and leaves the
\* registry (the name's fields, hasOne and hasMany), the constructor cache and
\* the constructors as they were.
C6_RedefineKeepsFirst ==
  [][/\ \A n \in EntityNames : classCache[n] # 0 => classCache'[n] = classCache[n]
     /\ \A n \in EntityNames, fs \in FieldChoices :
          (entityMeta[n].defined /\ Define(n, fs)) =>
            /\ entityMeta' = entityMeta
            /\ classCache' = classCache
            /\ ctors' = ctors
            /\ last'.op = "redefine"
            /\ last'.ret = classCache[n]
            /\ ctors[classCache[n]] = n]_vars

C6_Witness ==
  /\ last.op = "redefine"
  /\ last.differs
  /\ last.ret = classCache[last.name]
  /\ entityMeta[last.name].hasMany # << >>
  /\ entityMeta[last.name].fields = FieldsB

\* C7: after clean() the trackedObjects that add, rowToEntity and flush use is
\* empty, so that a flush issues nothing and calls back; the registry is as it
\* was.
C7_CleanEmptiesCache ==
  [][Clean =>
       /\ trackedObjects' = << >>
       /\ flush(entityMeta', objs', trackedObjects').issued = {}
       /\ entityMeta' = entityMeta]_vars

\* C8: reading a hasOne relation or a hasMany collection of an instance, when
\* nothing was fetched or assigned to it, raises; it gives neither null nor
\* undefined, also for an instance made before the relation was declared.
C8_UnresolvedRelationRaises ==
  \A r \in DOMAIN objs :
    LET o == objs[r]
        meta == entityMeta[o.type]
    IN /\ \A p \in MapKeys(meta.hasOne) :
            (o.dobj[p] = 0 /\ o.data[p] = Undef /\ o.plain[p] = Undef) =>
              GetProp(entityMeta, o, p) = Throw
       /\ \A p \in MapKeys(meta.hasMany) :
            o.plain[p] = Undef => GetProp(entityMeta, o, p) = Throw

\* C9: over the BOOL domain the converters are inverse: for v in {0, 1},
\* toStorage(fromStorage(v)) = toStorage(v) = v, and for b in {false, true},
\* fromStorage(toStorage(b)) = b.
C9_BoolRoundTrip ==
  conv.t = "BOOL" =>
    /\ (conv.v0 \in {Num(0), Num(1)} /\ conv.trail = << "fromStorage", "toStorage" >>)
         => conv.cur = conv.v0
    /\ (conv.v0 \in {Num(0), Num(1)} /\ conv.trail = << "toStorage" >>)
         => conv.cur = conv.v0
    /\ (conv.v0 \in {Bool(FALSE), Bool(TRUE)}
          /\ conv.trail = << "toStorage", "fromStorage" >>)
         => conv.cur = conv.v0

C9_Witness ==
  /\ conv.t = "BOOL"
  /\ conv.v0 = Bool(FALSE)
  /\ conv.trail = << "toStorage", "fromStorage" >>
  /\ conv.cur = Bool(FALSE)

\* The columns of a create statement for an entity with this meta: the id
\* primary key, each declared field, and one VARCHAR(255) column per hasOne
\* relation.
ColumnsAsDeclared(cols, meta) ==
  /\ Len(cols) = 1 + Len(meta.fields) + Len(meta.hasOne)
  /\ cols[1] = [n |-> "id", t |-> "VARCHAR(32) PRIMARY KEY"]
  /\ \A i \in DOMAIN meta.fields : cols[1 + i] = meta.fields[i]
  /\ \A rel \in MapKeys(meta.hasOne) :
       Cardinality({k \in DOMAIN cols : cols[k] = [n |-> rel, t |-> "VARCHAR(255)"]}) = 1

\* C10: owner.hasMany(collectionName, target, inverseName) leaves the target's
\* hasOne map with inverseName mapped to the owner; a schemaSync called later
\* schedules every registered entity, and each create statement it prepares
\* has the id primary key, each declared field and one string-typed column per
\* hasOne relation of its entity.
C10_HasManyInverseColumn ==
  [][/\ \A c \in DOMAIN ctors, other \in DOMAIN ctors, cn \in CollNames, inv \in RelNames :
          HasMany(c, cn, other, inv) =>
            /\ inv \in MapKeys(entityMeta'[ctors[other]].hasOne)
            /\ \A k \in DOMAIN entityMeta'[ctors[other]].hasOne :
                 entityMeta'[ctors[other]].hasOne[k].n = inv =>
                   entityMeta'[ctors[other]].hasOne[k].e = c
     /\ \A q \in requests' \ requests :
          q.stage = "tx" =>
            /\ q.stmt.kind = "CREATE"
            /\ ColumnsAsDeclared(q.stmt.cols, entityMeta'[q.stmt.table])
     /\ \A j \in 1..MaxSync :
          SchemaSync(j) =>
            \A n \in EntityNames :
              entityMeta[n].defined =>
                \/ n \in Range(syncs'[j].queue)
                \/ \E q \in requests' : q.slot = j /\ q.stmt.table = n]_vars

C10_Witness ==
  /\ entityMeta["Pet"].hasOne = << [n |-> "owner", e |-> classCache["Person"]] >>
  /\ \E q \in requests :
       /\ q.stage = "stmt"
       /\ q.stmt.table = "Pet"
       /\ q.stmt.cols = << [n |-> "id", t |-> "VARCHAR(32) PRIMARY KEY"],
                           [n |-> "name", t |-> "TEXT"],
                           [n |-> "owner", t |-> "VARCHAR(255)"] >>

\* C11: a schemaSync() call has at most one transaction or statement
\* outstanding, issues its create statements in the order it pops the entities
\* registered at call time, one per entity, and, with none outstanding, has
\* called its callback once, after the statement of the last entity; this for
\* any number of registered entities, none included.
C11_SyncSequentialCallsBackOnce ==
  \A j \in 1..MaxSync :
    LET s == syncs[j]
        outstanding == {q \in requests : q.slot = j}
        order == Reverse(s.snapshot)
    IN /\ Cardinality(outstanding) <= 1
       /\ s.cb <= 1
       /\ Len(s.tables) <= Len(order)
       /\ s.tables = SubSeq(order, 1, Len(s.tables))
       /\ s.cb = 1 => (s.tables = order /\ outstanding = {})
       /\ (s.state # "idle" /\ outstanding = {} /\ s.failed = 0) => s.cb = 1

\* C12: a schemaSync() call opens one transaction on the connection, however
\* many entities are registered: every create statement it issues is issued in
\* that transaction.
C12_SyncOneTransaction ==
  \A j \in 1..MaxSync :
    /\ syncs[j].ntx <= 1
    /\ syncs[j].nstmt > 0 => syncs[j].ntx = 1

\* C13: a flush() or schemaSync() call one of whose statements the store
\* reported as failed has called its callback: the failure reaches the caller,
\* the call does not stall with its callback never invoked.
C13_FailureReachesCaller ==
  /\ \A i \in 1..MaxOverlap : flushes[i].failed > 0 => flushes[i].cb >= 1
  /\ \A j \in 1..MaxSync : syncs[j].failed > 0 => syncs[j].cb >= 1

\* C14: an entry of trackedObjects is never replaced nor removed: every step
\* keeps each entry, an id has one entry, and add() of an instance whose id is
\* tracked, for this or another instance, leaves trackedObjects as it was.
C14_TrackedNeverReplaced ==
  [][/\ Len(trackedObjects') >= Len(trackedObjects)
     /\ \A k \in DOMAIN trackedObjects : trackedObjects'[k] = trackedObjects[k]
     /\ \A k \in DOMAIN trackedObjects', m \in DOMAIN trackedObjects' :
          objs'[trackedObjects'[k]].id = objs'[trackedObjects'[m]].id => k = m
     /\ \A r \in DOMAIN objs :
          (Add(r) /\ Tracked(objs, trackedObjects, objs[r].id) # 0) =>
            /\ trackedObjects' = trackedObjects
            /\ Tracked(objs', trackedObjects', objs[r].id)
                 = Tracked(objs, trackedObjects, objs[r].id)]_vars

\* add() was handed a second instance of a tracked id, after a flush saved
\* the first: the first is still the one tracked.
C14_Witness ==
  /\ last.op = "add"
  /\ Tracked(objs, trackedObjects, objs[last.ret].id) \notin {0, last.ret}
  /\ \E i \in 1..MaxOverlap :
       Tracked(objs, trackedObjects, objs[last.ret].id) \in Range(flushes[i].saved)

\* The statements of flush call i that are outstanding.
Outstanding(i) == {p \in pending : p.slot = i}

\* C15: a flush() call has at most one of its statements outstanding, and
\* while it waits for a statement it calls save on a further instance only in
\* the step in which that statement completes.
C15_FlushOneOutstanding ==
  [][\A i \in 1..MaxOverlap :
       /\ Cardinality(Outstanding(i)') <= 1
       /\ (flushes[i].state = "waiting" /\ flushes'[i].saved # flushes[i].saved) =>
            /\ Outstanding(i) # {}
            /\ Outstanding(i) \cap pending' = {}
            /\ flushes'[i].failed = flushes[i].failed
            /\ Len(flushes'[i].saved) > Len(flushes[i].saved)]_vars

\* A flush of two instances has issued its second statement, the first having
\* completed, while another flush is waiting too.
C15_Witness ==
  \E i \in 1..MaxOverlap, k \in 1..MaxOverlap :
    /\ i # k
    /\ flushes[i].nstmt = 2
    /\ Cardinality(Outstanding(i)) = 1
    /\ Cardinality(Outstanding(k)) = 1

\* Statement st is the INSERT or UPDATE that save issued for instance r.
StmtOf(st, r) ==
  /\ st.table = objs[r].type
  /\ \/ st.kind = "INSERT" /\ Last(st.vals) = IdStr(objs[r].id)
     \/ st.kind = "UPDATE" /\ st.key = objs[r].id

\* Instance r was written after flush call p.slot issued statement p for it,
\* and p has not completed.
LateWrite(r, p) ==
  /\ p \in pending
  /\ r \in Range(flushes[p.slot].saved)
  /\ StmtOf(p.stmt, r)
  /\ objs[r].dirty # << >>

\* C16: when an instance is written after save issued its statement and before
\* the statement completes, the names written are still dirty once the
\* statement has completed, and the next save of the instance issues a
\* statement that sets them and leaves the instance clean.
C16_LateWriteSavedNext ==
  \A r \in DOMAIN objs : \A p \in pending :
    LateWrite(r, p) =>
      LET done == saveCallback(entityMeta, objs, flushes[p.slot])
          nxt == save(entityMeta, done.objs, r)
      IN /\ done.objs[r].dirty = objs[r].dirty
         /\ nxt.outcome = "issued"
         /\ StmtOf(nxt.stmt, r)
         /\ SubSeq(nxt.stmt.cols, 1, Len(objs[r].dirty)) = objs[r].dirty
         /\ nxt.objs[r].dirty = << >>

\* C17: after two writes to a hasOne relation, whatever was written before,
\* the relation is dirty and only the last write shows: after null or a bare
\* id the stored key is that value and a read raises, after an instance a read
\* returns it and the stored key is its id.
C17_HasOneLastWriteWins ==
  \A r \in DOMAIN objs : \A ref \in objs[r].racc :
    \A v1 \in WriteVals(r, ref), v2 \in WriteVals(r, ref) :
      LET o2 == setHasOne(objs, setHasOne(objs, objs[r], ref, v1), ref, v2)
      IN /\ ref \in Range(o2.dirty)
         /\ IsObj(v2) =>
              /\ getHasOne(o2, ref) = v2
              /\ o2.data[ref] = IdStr(objs[v2[2]].id)
         /\ ~IsObj(v2) =>
              /\ getHasOne(o2, ref) = Throw
              /\ o2.data[ref] = v2

\* The storage value of instance o's dirty name p: null for a stored null, and
\* otherwise what entityValToDbVal gives for the stored value (the stored key,
\* for a hasOne relation) and the name's declared type.
StorageValue(o, p) ==
  IF o.data[p] = Null THEN Null
  ELSE entityValToDbVal(objs, o.data[p], FieldType(entityMeta[o.type], p))

\* C18: save() of any instance raises nothing, and in the statement it issues
\* the parameter bound for each dirty name is the storage value of the name's
\* stored value by its declared type.
C18_SaveBindsStorageValues ==
  \A r \in DOMAIN objs :
    LET res == save(entityMeta, objs, r)
    IN /\ res.outcome # "thrown"
       /\ res.outcome = "issued" =>
            \A k \in DOMAIN objs[r].dirty :
              res.stmt.vals[k] = StorageValue(objs[r], objs[r].dirty[k])

\* C19: _new, once false, stays false; an instance whose INSERT is
\* outstanding still has _new true, and so has one whose INSERT the store
\* has just reported as failed.
C19_NewUntilInsertCompletes ==
  [][\A r \in DOMAIN objs :
       /\ ~objs[r].new => ~objs'[r].new
       /\ \A p \in pending' :
            (p.stmt.kind = "INSERT" /\ StmtOf(p.stmt, r)'
               /\ r \in Range(flushes'[p.slot].saved)) => objs'[r].new
       /\ \A p \in pending :
            (FlushFail(p) /\ p.stmt.kind = "INSERT" /\ StmtOf(p.stmt, r)
               /\ r \in Range(flushes[p.slot].saved)) => objs'[r].new]_vars

\* The statements issued in a step.
Issued == pending' \ pending

\* C20: with flush() calls overlapping and statements completing or failing
\* in any order, the instances of one id have had at most one INSERT issued
\* between them; a statement issued for a tracked instance sets the names that
\* were dirty and leaves none dirty, and a dirty name is dropped only in a
\* step that issues a statement of its instance setting it.
C20_OneInsertMarksConsumedOnce ==
  [][\A r \in DOMAIN objs :
       /\ objs'[r].inserts <= 1
       /\ \A q \in DOMAIN objs' :
            (q # r /\ objs'[q].id = objs'[r].id) =>
              objs'[q].inserts + objs'[r].inserts <= 1
       /\ \A st \in Issued :
            (StmtOf(st.stmt, r) /\ r \in Range(trackedObjects)) =>
              /\ SubSeq(st.stmt.cols, 1, Len(objs[r].dirty)) = objs[r].dirty
              /\ Len(st.stmt.cols)
                   = Len(objs[r].dirty) + (IF st.stmt.kind = "INSERT" THEN 1 ELSE 0)
              /\ objs'[r].dirty = << >>
       /\ \A n \in Range(objs[r].dirty) :
            \/ n \in Range(objs'[r].dirty)
            \/ \E st \in Issued : StmtOf(st.stmt, r) /\ n \in Range(st.stmt.cols)]_vars

\* Two flush() calls overlap on one instance: its INSERT, issued by the first,
\* and an UPDATE of a name written since, issued by the second, are both
\* outstanding.
C20_Witness ==
  \E r \in DOMAIN objs, p \in pending, q \in pending :
    /\ p.slot # q.slot
    /\ StmtOf(p.stmt, r) /\ p.stmt.kind = "INSERT"
    /\ StmtOf(q.stmt, r) /\ q.stmt.kind = "UPDATE"
    /\ objs[r].inserts = 1
    /\ objs[r].dirty = << >>

====
